---- MODULE Spec2Model ----
(***************************************************************************)
(* Real-time transcript ingestion relay of TA-da.                          *)
(*                                                                         *)
(* Two implementations share the buffering / sequencing code line for      *)
(* line: the raw-websocket relay (src/zoom-RTMS/index.js, impl = "js") and *)
(* the SDK relay (src/zoom-RTMS-SDK/src/rtms/websocketHandler.ts,          *)
(* impl = "sdk").  The process runs one of them; Init picks which.         *)
(*                                                                         *)
(* Node.js runs every callback to its first real suspension point without  *)
(* interleaving, so one action is one callback up to the point where it    *)
(* awaits network I/O (es.bulk).  Continuations of an awaited bulk call    *)
(* run in the action that delivers the bulk response.                      *)
(***************************************************************************)
EXTENDS Integers, Sequences, FiniteSets, TLC

\* ---------------------------------------------------------------- bounds
Meetings == {"m1", "m2"}
Streams == {"s1"}
MaxFragments == 2      \* transcript fragments assembled into documents
MaxClients == 1        \* sessions (socket pairs / joined clients) alive at once
MaxTimers == 2         \* cleanup timers pending (or about to be scheduled) at once
BULK_BATCH_SIZE == 2   \* ES_BULK_SIZE of this deployment
MaxObservers == 2      \* browser sockets connected to the sdk relay at once

\* JavaScript undefined (a payload field that is absent)
Undefined == "undefined"
\* a server_urls string that is no websocket URL: `new WebSocket(...)` throws
BadUrl == "not a url"
\* the caller of flushBulk did not await it (timer, appendTranscriptToES)
NoWaiter == "none"
\* JavaScript null in a timestamp field
NULL == 0
\* new Date().toISOString(): some non-null timestamp
Now == 1

VARIABLES
  impl,                  \* "js" | "sdk": which relay this process runs
  es,                    \* TRUE iff an Elasticsearch client was created
  esConnected,           \* esConnected flag
  pingPending,           \* startup es.ping() not yet answered
  meetingChunkCounters,  \* Map meeting id -> next chunk index
  meetingMetadata,       \* Map meeting id -> metadata record
  bulkBuffer,            \* queue of documents waiting for a bulk write
  bulkCalls,             \* the es.bulk calls in flight, in the order issued
  cleanupTimers,         \* pending 60000 ms setTimeout callbacks (FIFO)
  clients,               \* the live sessions: js socket pairs, sdk joined clients
  fate,                  \* history: per document (by uid) what happened to it
  lastDoc,               \* history: the document built by the latest fragment handler
  maxHanded,             \* history: per meeting, highest chunk_index ever handed out
  sinceCleanup,          \* history: per meeting, fragments handled since its counter was last deleted
  wsConnections,         \* sdk: the observer sockets, in insertion order
  shutdown,              \* "running" | "flushing" | "closing" | "exited"
  lastBroadcast,         \* output: the event the latest callback gave broadcastToClients,
                         \*   whom it was sent to, whose send threw (NoBroadcast: none)
  webhookFault,          \* history: a webhook request that did not get its 200
  lastTurn               \* output: the handshake response or keep-alive request the
                         \*   latest callback handled, and what it sent back (NoTurn: none)

vars == <<impl, es, esConnected, pingPending, meetingChunkCounters, meetingMetadata,
          bulkBuffer, bulkCalls, cleanupTimers, clients, fate, lastDoc, maxHanded,
          sinceCleanup, wsConnections, shutdown, lastBroadcast, webhookFault, lastTurn>>

\* the state the relay itself holds (no history variables)
progVars == <<impl, es, esConnected, pingPending, meetingChunkCounters,
              meetingMetadata, bulkBuffer, bulkCalls, cleanupTimers, clients,
              wsConnections, shutdown>>

\* ------------------------------------------------------------ Map helpers
EmptyMap == [k \in {} |-> 0]
MapHas(map, k) == k \in DOMAIN map
MapSet(map, k, v) == [x \in (DOMAIN map) \cup {k} |-> IF x = k THEN v ELSE map[x]]
MapDelete(map, k) == [x \in (DOMAIN map) \ {k} |-> map[x]]

Last(s) == s[Len(s)]
Uids(docs) == {docs[k].uid : k \in 1..Len(docs)}
RemoveAt(s, i) == SubSeq(s, 1, i - 1) \o SubSeq(s, i + 1, Len(s))

\* ------------------------------------------------------- shared functions
\* flushBulk that issues the write but leaves the queue as it was.
flushBulk_noClear(buf, calls) ==
  IF ~es \/ ~esConnected \/ Len(buf) = 0
    THEN [buf |-> buf, calls |-> calls, issued |-> FALSE]
    ELSE [buf |-> buf,
          calls |-> Append(calls, [operations |-> buf, awaitedBy |-> NoWaiter]),
          issued |-> TRUE]

\* flushBulk without the `bulkBuffer.length === 0` test.
flushBulk_noEmptyCheck(buf, calls) ==
  IF ~es \/ ~esConnected
    THEN [buf |-> buf, calls |-> calls, issued |-> FALSE]
    ELSE [buf |-> <<>>,
          calls |-> Append(calls, [operations |-> buf, awaitedBy |-> NoWaiter]),
          issued |-> TRUE]

\* flushBulk up to `await es.bulk(...)`: guard, snapshot, clear, issue.
flushBulk(buf, calls) ==
  IF ~es \/ ~esConnected \/ Len(buf) = 0
    THEN [buf |-> buf, calls |-> calls, issued |-> FALSE]
    ELSE [buf |-> <<>>,
          calls |-> Append(calls, [operations |-> buf, awaitedBy |-> NoWaiter]),
          issued |-> TRUE]

\* nextChunkIndex that returns the counter without storing the increment.
nextChunkIndex_noIncrement(meetingId, counters) ==
  LET v == IF MapHas(counters, meetingId) THEN counters[meetingId] ELSE 0
  IN [v |-> v, counters |-> MapSet(counters, meetingId, v)]

\* nextChunkIndex: read-and-increment with no suspension in between.
nextChunkIndex(meetingId, counters) ==
  LET v == IF MapHas(counters, meetingId) THEN counters[meetingId] ELSE 0
  IN [v |-> v, counters |-> MapSet(counters, meetingId, v + 1)]

\* appendTranscriptToES with `>` for `>=`.
appendTranscriptToES_offByOne(doc, buf, calls) ==
  IF ~es \/ ~esConnected
    THEN [buf |-> buf, calls |-> calls, issued |-> FALSE]
    ELSE LET pushed == Append(buf, doc)
         IN IF Len(pushed) > BULK_BATCH_SIZE
              THEN flushBulk(pushed, calls)
              ELSE [buf |-> pushed, calls |-> calls, issued |-> FALSE]

\* appendTranscriptToES without the `!es || !esConnected` return.
appendTranscriptToES_noGuard(doc, buf, calls) ==
  LET pushed == Append(buf, doc)
  IN IF Len(pushed) >= BULK_BATCH_SIZE
       THEN flushBulk(pushed, calls)
       ELSE [buf |-> pushed, calls |-> calls, issued |-> FALSE]

\* appendTranscriptToES without the size-triggered flush.
appendTranscriptToES_noFlush(doc, buf, calls) ==
  IF ~es \/ ~esConnected
    THEN [buf |-> buf, calls |-> calls, issued |-> FALSE]
    ELSE [buf |-> Append(buf, doc), calls |-> calls, issued |-> FALSE]

\* appendTranscriptToES that puts the new document at the head of the queue.
appendTranscriptToES_unshift(doc, buf, calls) ==
  IF ~es \/ ~esConnected
    THEN [buf |-> buf, calls |-> calls, issued |-> FALSE]
    ELSE LET pushed == <<doc>> \o buf
         IN IF Len(pushed) >= BULK_BATCH_SIZE
              THEN flushBulk(pushed, calls)
              ELSE [buf |-> pushed, calls |-> calls, issued |-> FALSE]

\* appendTranscriptToES up to the await inside flushBulk.
appendTranscriptToES(doc, buf, calls) ==
  IF ~es \/ ~esConnected
    THEN [buf |-> buf, calls |-> calls, issued |-> FALSE]
    ELSE LET pushed == Append(buf, doc)
         IN IF Len(pushed) >= BULK_BATCH_SIZE
              THEN flushBulk(pushed, calls)
              ELSE [buf |-> pushed, calls |-> calls, issued |-> FALSE]

\* storeMeetingMetadata: set (create or overwrite) the meeting's entry.
storeMeetingMetadata(meetingId, metadata, map) == MapSet(map, meetingId, metadata)

\* getMeetingMetadata that answers an unknown meeting with a default record
\* carrying a start time instead of the empty object.
getMeetingMetadata_default(meetingId, map) ==
  IF MapHas(map, meetingId) THEN map[meetingId]
  ELSE [meeting_start_time |-> Now, rtms_stream_id |-> Undefined]

\* getMeetingMetadata: `meetingMetadata.get(id) || {}`; a missing
\* meeting_start_time reads as NULL through `|| null` at the call site.
getMeetingMetadata(meetingId, map) ==
  IF MapHas(map, meetingId) THEN map[meetingId]
  ELSE [meeting_start_time |-> NULL, rtms_stream_id |-> Undefined]

\* One session: its closure variables, its phase, and (sdk) whether
\* rtmsClients holds it under its stream id.
Client(meetingUuid, streamId, phase, mapped) ==
  [meetingUuid |-> meetingUuid, streamId |-> streamId, phase |-> phase, mapped |-> mapped]

\* sdk rtmsClients: Map stream id -> client
rtmsClients ==
  [s \in {c.streamId : c \in {d \in clients : d.mapped}} |->
     CHOOSE c \in clients : c.mapped /\ c.streamId = s]

\* The transcript document built from one fragment; uid stands for the
\* identity of the JavaScript object.
TranscriptDoc(meetingUuid, idx, meta, text) ==
  [meeting_id |-> meetingUuid, chunk_index |-> idx, text |-> text,
   meeting_start_time |-> meta.meeting_start_time,
   uid |-> Len(fate) + 1]

NoDoc == [meeting_id |-> Undefined, chunk_index |-> 0, text |-> "", meeting_start_time |-> NULL,
         uid |-> 0]

\* ------------------------------------------------------------- observers
\* One observer socket of wsConnections; open is `readyState === OPEN`.
Observer(id, open) == [id |-> id, open |-> open]
ObserverIds(conns) == {conns[k].id : k \in 1..Len(conns)}
OpenIds(conns) == {conns[k].id : k \in {j \in 1..Len(conns) : conns[j].open}}
\* position of observer id in the iteration order of the Set (0: not in it)
PosOf(conns, id) ==
  IF id \in ObserverIds(conns) THEN CHOOSE k \in 1..Len(conns) : conns[k].id = id ELSE 0
\* A delete that empties the Set.
DeleteObserver_clear(conns, id) == SubSeq(conns, 1, 0)

\* Set.delete(ws)
DeleteObserver(conns, id) == SelectSeq(conns, LAMBDA o : o.id # id)
\* The open observer whose ws.send throws in this callback (0: none does).
Failing(conns) == {0} \cup OpenIds(conns)

\* a message for the observers: its type and, for a transcript, its text
Event(type, text) == [type |-> type, text |-> text]
NoBroadcast == [type |-> "none", text |-> "", to |-> {}, failed |-> 0]
NoTurn == [got |-> <<>>, sent |-> <<>>]

\* broadcastToClients(message): forEach over the Set in insertion order,
\* send to the sockets that are OPEN.  Nothing catches a throwing send, which
\* ends the forEach and propagates to the caller (failed # 0).
broadcastToClients(message, conns, failing) ==
  [type |-> message.type, text |-> message.text,
   to |-> {conns[k].id : k \in {j \in 1..Len(conns) :
                                  /\ conns[j].open
                                  /\ failing # 0 => j < PosOf(conns, failing)}},
   failed |-> failing]

\* history bookkeeping: the documents of a newly issued bulk call
FateIssued(f, r) ==
  IF r.issued
    THEN [u \in DOMAIN f |->
            IF u \in Uids(Last(r.calls).operations)
              THEN [f[u] EXCEPT !.batches = @ + 1] ELSE f[u]]
    ELSE f

\* ------------------------------------------------------------------- Init
Init ==
  /\ impl \in {"js", "sdk"}
  /\ es \in BOOLEAN
  /\ esConnected = FALSE
  /\ pingPending = es
  /\ meetingChunkCounters = EmptyMap
  /\ meetingMetadata = EmptyMap
  /\ bulkBuffer = <<>>
  /\ bulkCalls = <<>>
  /\ cleanupTimers = <<>>
  /\ clients = {}
  /\ fate = <<>>
  /\ lastDoc = NoDoc
  /\ maxHanded = [m \in Meetings |-> -1]
  /\ sinceCleanup = [m \in Meetings |-> 0]
  /\ wsConnections = <<>>
  /\ shutdown = "running"
  /\ lastBroadcast = NoBroadcast
  /\ webhookFault = "none"
  /\ lastTurn = NoTurn

\* ---------------------------------------------------------------- actions
\* es.ping() resolved: esConnected = true.
EsPingOk ==
  /\ shutdown # "exited"
  /\ pingPending
  /\ pingPending' = FALSE
  /\ esConnected' = TRUE
  /\ lastBroadcast' = NoBroadcast
  /\ lastTurn' = NoTurn
  /\ UNCHANGED <<wsConnections, shutdown, webhookFault>>
  /\ UNCHANGED <<impl, es, meetingChunkCounters, meetingMetadata, bulkBuffer,
                 bulkCalls, cleanupTimers, clients, fate, lastDoc, maxHanded,
                 sinceCleanup>>

\* es.ping() rejected: esConnected stays false for the process lifetime.
EsPingFail ==
  /\ shutdown # "exited"
  /\ pingPending
  /\ pingPending' = FALSE
  /\ lastBroadcast' = NoBroadcast
  /\ lastTurn' = NoTurn
  /\ UNCHANGED <<wsConnections, shutdown, webhookFault>>
  /\ UNCHANGED <<impl, es, esConnected, meetingChunkCounters, meetingMetadata,
                 bulkBuffer, bulkCalls, cleanupTimers, clients, fate, lastDoc,
                 maxHanded, sinceCleanup>>

\* the handler that awaits a flushBulk: the shutdown sequence
ShutdownWaiter == "shutdown"
\* the shutdown sequence is suspended at its `await flushBulk()`
ShutdownSuspended == \E i \in 1..Len(bulkCalls) : bulkCalls[i].awaitedBy = ShutdownWaiter
\* bulkFlushInterval has not been cleared: js clears it first thing in
\* gracefulShutdown, sdk cleanup() only after its flush has returned.
IntervalRunning ==
  /\ shutdown # "exited"
  /\ IF impl = "js" THEN shutdown = "running"
                    ELSE shutdown = "running" \/ ShutdownSuspended

\* A timer that flushes only a full batch.
TimerTick_onlyFullBatch ==
  LET r == IF Len(bulkBuffer) >= BULK_BATCH_SIZE
             THEN flushBulk(bulkBuffer, bulkCalls)
             ELSE [buf |-> bulkBuffer, calls |-> bulkCalls, issued |-> FALSE]
  IN /\ IntervalRunning
     /\ bulkBuffer' = r.buf
     /\ bulkCalls' = r.calls
     /\ fate' = FateIssued(fate, r)
     /\ lastBroadcast' = NoBroadcast
     /\ lastTurn' = NoTurn
     /\ UNCHANGED <<wsConnections, shutdown, webhookFault>>
     /\ UNCHANGED <<impl, es, esConnected, pingPending, meetingChunkCounters,
                    meetingMetadata, cleanupTimers, clients, lastDoc, maxHanded,
                    sinceCleanup>>

\* setInterval(flushBulk, BULK_FLUSH_MS) fires.
TimerTick ==
  LET r == flushBulk(bulkBuffer, bulkCalls)
  IN /\ IntervalRunning
     /\ bulkBuffer' = r.buf
     /\ bulkCalls' = r.calls
     /\ fate' = FateIssued(fate, r)
     /\ lastBroadcast' = NoBroadcast
     /\ lastTurn' = NoTurn
     /\ UNCHANGED <<wsConnections, shutdown, webhookFault>>
     /\ UNCHANGED <<impl, es, esConnected, pingPending, meetingChunkCounters,
                    meetingMetadata, cleanupTimers, clients, lastDoc, maxHanded,
                    sinceCleanup>>

\* One transcript fragment for meetingUuid: chunk_index from the counter,
\* enrichment from the registry, then appendTranscriptToES.
AssembleAndAppend(meetingUuid, text) ==
  LET n == nextChunkIndex(meetingUuid, meetingChunkCounters)
      meta == getMeetingMetadata(meetingUuid, meetingMetadata)
      doc == TranscriptDoc(meetingUuid, n.v, meta, text)
      r == appendTranscriptToES(doc, bulkBuffer, bulkCalls)
  IN /\ meetingChunkCounters' = n.counters
     /\ bulkBuffer' = r.buf
     /\ bulkCalls' = r.calls
     /\ lastDoc' = doc
     /\ fate' = FateIssued(Append(fate, [enqueued |-> es /\ esConnected,
                                         batches |-> 0, stored |-> 0]), r)
     /\ maxHanded' = [maxHanded EXCEPT ![meetingUuid] = IF n.v > @ THEN n.v ELSE @]
     /\ sinceCleanup' = [sinceCleanup EXCEPT ![meetingUuid] = @ + 1]

\* js rtms_started that also restarts the meeting's sequence at 0.
JS_RtmsStarted_resetsCounter(meetingUuid, rtmsStreamId, serverUrls) ==
  /\ shutdown # "exited"
  /\ impl = "js"
  /\ IF meetingUuid = Undefined \/ rtmsStreamId = Undefined \/ serverUrls = Undefined
       THEN UNCHANGED <<meetingMetadata, clients, webhookFault, shutdown, meetingChunkCounters>>
       ELSE /\ meetingMetadata' = storeMeetingMetadata(meetingUuid,
                  [meeting_start_time |-> Now, rtms_stream_id |-> rtmsStreamId],
                  meetingMetadata)
            /\ meetingChunkCounters' = MapSet(meetingChunkCounters, meetingUuid, 0)
            /\ IF serverUrls = BadUrl
                 THEN /\ webhookFault' = "unanswered"
                      /\ shutdown' \in {shutdown, "exited"}
                      /\ UNCHANGED clients
                 ELSE /\ Cardinality(clients) < MaxClients
                      /\ clients' = clients \cup
                                      {Client(meetingUuid, rtmsStreamId, "signaling", FALSE)}
                      /\ UNCHANGED <<webhookFault, shutdown>>
  /\ lastBroadcast' = NoBroadcast
  /\ lastTurn' = NoTurn
  /\ UNCHANGED wsConnections
  /\ UNCHANGED <<impl, es, esConnected, pingPending, bulkBuffer,
                 bulkCalls, cleanupTimers, fate, lastDoc, maxHanded, sinceCleanup>>

\* js handleWebhook, event meeting.rtms_started.  A payload without one of
\* the three fields is acknowledged and dropped.  Otherwise the metadata is
\* stored and connectToSignalingWebSocket runs `new WebSocket(serverUrls)`,
\* which throws on a string that is no websocket URL: the async handler then
\* rejects before res.sendStatus(200), the request is never answered, and
\* the unhandled rejection is logged or ends the process (Node's
\* --unhandled-rejections mode).
JS_RtmsStarted(meetingUuid, rtmsStreamId, serverUrls) ==
  /\ shutdown # "exited"
  /\ impl = "js"
  /\ IF meetingUuid = Undefined \/ rtmsStreamId = Undefined \/ serverUrls = Undefined
       THEN UNCHANGED <<meetingMetadata, clients, webhookFault, shutdown>>
       ELSE /\ meetingMetadata' = storeMeetingMetadata(meetingUuid,
                  [meeting_start_time |-> Now, rtms_stream_id |-> rtmsStreamId],
                  meetingMetadata)
            /\ IF serverUrls = BadUrl
                 THEN /\ webhookFault' = "unanswered"
                      /\ shutdown' \in {shutdown, "exited"}
                      /\ UNCHANGED clients
                 ELSE /\ Cardinality(clients) < MaxClients
                      /\ clients' = clients \cup
                                      {Client(meetingUuid, rtmsStreamId, "signaling", FALSE)}
                      /\ UNCHANGED <<webhookFault, shutdown>>
  /\ lastBroadcast' = NoBroadcast
  /\ lastTurn' = NoTurn
  /\ UNCHANGED wsConnections
  /\ UNCHANGED <<impl, es, esConnected, pingPending, meetingChunkCounters, bulkBuffer,
                 bulkCalls, cleanupTimers, fate, lastDoc, maxHanded, sinceCleanup>>

\* a handshake response of the RTMS protocol on one socket of session c;
\* url: the response carries media_server.server_urls.transcript
Response(c, socket, msg_type, status_code, url) ==
  [session |-> c, socket |-> socket, msg_type |-> msg_type,
   status_code |-> status_code, url |-> url]
\* CLIENT_READY_ACK, sent on the signaling socket of session c
ClientReady(c) ==
  [session |-> c, socket |-> "signaling", msg_type |-> 7, rtms_stream_id |-> c.streamId]
\* status_code of a handshake response: success, or a failure
StatusCodes == {0, 1}

\* js signaling handshake response with status 0 and a transcript URL:
\* connectToMediaWebSocket opens the media socket of session c.
JS_SignalingHandshakeOk(c) ==
  /\ shutdown # "exited"
  /\ impl = "js"
  /\ c \in clients
  /\ c.phase = "signaling"
  /\ clients' = (clients \ {c}) \cup {[c EXCEPT !.phase = "media"]}
  /\ lastTurn' = [got |-> <<Response(c, "signaling", 2, 0, TRUE)>>, sent |-> <<>>]
  /\ lastBroadcast' = NoBroadcast
  /\ UNCHANGED <<wsConnections, shutdown, webhookFault>>
  /\ UNCHANGED <<impl, es, esConnected, pingPending, meetingChunkCounters,
                 meetingMetadata, bulkBuffer, bulkCalls, cleanupTimers, fate, lastDoc,
                 maxHanded, sinceCleanup>>

\* js signaling handshake response (msg_type 2) with a non-zero status, or
\* with status 0 and no transcript URL: logged at most, nothing is opened.
JS_SignalingHandshakeFail(c, status_code, url) ==
  /\ shutdown # "exited"
  /\ impl = "js"
  /\ c \in clients
  /\ c.phase = "signaling"
  /\ status_code # 0 \/ ~url
  /\ lastTurn' = [got |-> <<Response(c, "signaling", 2, status_code, url)>>, sent |-> <<>>]
  /\ lastBroadcast' = NoBroadcast
  /\ UNCHANGED <<wsConnections, shutdown, webhookFault>>
  /\ UNCHANGED <<impl, es, esConnected, pingPending, meetingChunkCounters,
                 meetingMetadata, bulkBuffer, bulkCalls, cleanupTimers, clients, fate,
                 lastDoc, maxHanded, sinceCleanup>>

\* A media handshake handler that sends CLIENT_READY_ACK whatever the status.
JS_MediaHandshake_anyStatus(c, status_code) ==
  /\ shutdown # "exited"
  /\ impl = "js"
  /\ c \in clients
  /\ c.phase = "media"
  /\ lastTurn' = [got |-> <<Response(c, "media", 4, status_code, FALSE)>>,
                  sent |-> <<ClientReady(c)>>]
  /\ lastBroadcast' = NoBroadcast
  /\ UNCHANGED <<wsConnections, shutdown, webhookFault>>
  /\ UNCHANGED <<impl, es, esConnected, pingPending, meetingChunkCounters,
                 meetingMetadata, bulkBuffer, bulkCalls, cleanupTimers, clients, fate,
                 lastDoc, maxHanded, sinceCleanup>>

\* js media handshake response (msg_type 4): with status 0 CLIENT_READY_ACK
\* (msg_type 7) is sent on the session's signaling socket; any other status
\* falls through to the log of unknown messages.
JS_MediaHandshake(c, status_code) ==
  /\ shutdown # "exited"
  /\ impl = "js"
  /\ c \in clients
  /\ c.phase = "media"
  /\ lastTurn' = [got |-> <<Response(c, "media", 4, status_code, FALSE)>>,
                  sent |-> IF status_code = 0 THEN <<ClientReady(c)>> ELSE <<>>]
  /\ lastBroadcast' = NoBroadcast
  /\ UNCHANGED <<wsConnections, shutdown, webhookFault>>
  /\ UNCHANGED <<impl, es, esConnected, pingPending, meetingChunkCounters,
                 meetingMetadata, bulkBuffer, bulkCalls, cleanupTimers, clients, fate,
                 lastDoc, maxHanded, sinceCleanup>>

\* Close handlers that open the session's signaling connection again.
JS_SocketClose_reconnects(c) ==
  /\ shutdown # "exited"
  /\ impl = "js"
  /\ c \in clients
  /\ clients' = (clients \ {c}) \cup {[c EXCEPT !.phase = "signaling"]}
  /\ lastBroadcast' = NoBroadcast
  /\ lastTurn' = NoTurn
  /\ UNCHANGED <<wsConnections, shutdown, webhookFault>>
  /\ UNCHANGED <<impl, es, esConnected, pingPending, meetingChunkCounters,
                 meetingMetadata, bulkBuffer, bulkCalls, cleanupTimers, fate, lastDoc,
                 maxHanded, sinceCleanup>>

\* js 'close' handlers of the sockets of session c: log only, nothing is
\* reopened.
JS_SocketClose(c) ==
  /\ shutdown # "exited"
  /\ impl = "js"
  /\ c \in clients
  /\ clients' = clients \ {c}
  /\ lastBroadcast' = NoBroadcast
  /\ lastTurn' = NoTurn
  /\ UNCHANGED <<wsConnections, shutdown, webhookFault>>
  /\ UNCHANGED <<impl, es, esConnected, pingPending, meetingChunkCounters,
                 meetingMetadata, bulkBuffer, bulkCalls, cleanupTimers, fate, lastDoc,
                 maxHanded, sinceCleanup>>

\* the words a transcript frame may carry
Texts == {"", "hi"}
\* content of a js transcript frame: the fields the handler looks for the
\* text in, present or absent
Contents == {[data |-> "hi", text |-> Undefined],
             [data |-> "", text |-> Undefined],
             [data |-> Undefined, text |-> ""]}
PlainContent == [data |-> "hi", text |-> Undefined]

\* A text extraction with `||` in place of `??`: an empty string falls
\* through to the next field and at last to JSON.stringify(content).
extractText_falsy(content) ==
  IF content.data \notin {Undefined, ""} THEN content.data
  ELSE IF content.text \notin {Undefined, ""} THEN content.text
  ELSE "json"

\* js: content.data ?? content.text ?? ... ?? JSON.stringify(content)
extractText(content) ==
  IF content.data # Undefined THEN content.data
  ELSE IF content.text # Undefined THEN content.text
  ELSE "json"

\* js media socket 'message' handler, msg_type 17, frame content given.
JS_Fragment(c, content) ==
  /\ shutdown # "exited"
  /\ impl = "js"
  /\ c \in clients
  /\ c.phase = "media"
  /\ Len(fate) < MaxFragments
  /\ AssembleAndAppend(c.meetingUuid, extractText(content))
  /\ lastTurn' = NoTurn
  /\ lastBroadcast' = NoBroadcast
  /\ UNCHANGED <<wsConnections, shutdown, webhookFault>>
  /\ UNCHANGED <<impl, es, esConnected, pingPending, meetingMetadata, cleanupTimers,
                 clients>>

\* ... a frame with plain words
JS_Transcript(c) == JS_Fragment(c, PlainContent)

\* payloads of the media socket that are no RTMS message: text that is not
\* JSON, and the JSON literal null
MalformedPayloads == {"not json", "null"}

\* js media socket 'message' handler on a payload that is no RTMS message.
\* Text that JSON.parse rejects lands in the handler's catch: logged, return.
\* `null` parses, and the next line reads `msg.msg_type` of null: the
\* TypeError leaves the listener uncaught, which ends the process (the js
\* relay installs no uncaughtException handler).
JS_MediaMalformed(c, payload) ==
  /\ shutdown # "exited"
  /\ impl = "js"
  /\ c \in clients
  /\ c.phase = "media"
  /\ shutdown' = IF payload = "null" THEN "exited" ELSE shutdown
  /\ lastBroadcast' = NoBroadcast
  /\ lastTurn' = NoTurn
  /\ UNCHANGED <<wsConnections, webhookFault>>
  /\ UNCHANGED <<impl, es, esConnected, pingPending, meetingChunkCounters,
                 meetingMetadata, bulkBuffer, bulkCalls, cleanupTimers, clients, fate,
                 lastDoc, maxHanded, sinceCleanup>>

\* Cleanup timers pending or still to be scheduled by a suspended handler.
TimersOutstanding ==
  Len(cleanupTimers) +
  Cardinality({i \in 1..Len(bulkCalls) : bulkCalls[i].awaitedBy \notin {NoWaiter, ShutdownWaiter}})

\* js handleWebhook, event meeting.rtms_stopped: `await flushBulk()` and then
\* setTimeout(cleanup, 60000).  When flushBulk issued a bulk call the handler
\* is suspended until that call returns.
JS_RtmsStopped(meetingUuid) ==
  /\ shutdown # "exited"
  /\ impl = "js"
  /\ TimersOutstanding < MaxTimers
  /\ LET r == flushBulk(bulkBuffer, bulkCalls)
     IN /\ bulkBuffer' = r.buf
        /\ fate' = FateIssued(fate, r)
        /\ IF r.issued
             THEN /\ bulkCalls' = [r.calls EXCEPT ![Len(r.calls)].awaitedBy = meetingUuid]
                  /\ UNCHANGED cleanupTimers
             ELSE /\ bulkCalls' = r.calls
                  /\ cleanupTimers' = Append(cleanupTimers, meetingUuid)
  /\ lastBroadcast' = NoBroadcast
  /\ lastTurn' = NoTurn
  /\ UNCHANGED <<wsConnections, shutdown, webhookFault>>
  /\ UNCHANGED <<impl, es, esConnected, pingPending, meetingChunkCounters,
                 meetingMetadata, clients, lastDoc, maxHanded, sinceCleanup>>

\* sdk cleanup() from the point where its `await this.flushBulk()` has
\* returned: clearInterval, then every OPEN observer is sent server_shutdown
\* and closed, the Set is cleared, every client of rtmsClients is left and
\* the Map cleared.  A throwing send lands in cleanup's catch, which skips
\* the rest: the observers reached before it are closing, nothing is cleared
\* or left.  shutdown() then goes on to close the HTTP server.
SDK_cleanupAfterFlush ==
  /\ shutdown' = "closing"
  /\ \E failing \in Failing(wsConnections) :
       IF failing = 0
         THEN /\ wsConnections' = <<>>
              /\ clients' = {c \in clients : ~c.mapped}
         ELSE /\ wsConnections' =
                   [k \in 1..Len(wsConnections) |->
                      IF k < PosOf(wsConnections, failing)
                        THEN Observer(wsConnections[k].id, FALSE)
                        ELSE wsConnections[k]]
              /\ UNCHANGED clients

\* The handler that awaited bulk call i resumes after flushBulk returned:
\* a js rtms_stopped handler schedules its cleanup timer (and answers 200),
\* js gracefulShutdown calls server.close, sdk cleanup() goes on.
ResumeWaiter(waiter) ==
  IF waiter = NoWaiter
    THEN UNCHANGED <<cleanupTimers, shutdown, wsConnections, clients>>
    ELSE IF waiter = ShutdownWaiter
      THEN /\ UNCHANGED cleanupTimers
           /\ IF impl = "js"
                THEN /\ shutdown' = "closing"
                     /\ UNCHANGED <<wsConnections, clients>>
                ELSE SDK_cleanupAfterFlush
      ELSE /\ cleanupTimers' = Append(cleanupTimers, waiter)
           /\ UNCHANGED <<shutdown, wsConnections, clients>>

\* sdk shutdown() of index.ts up to its first suspension: nothing when
\* isShuttingDown is set, else cleanup(): `await this.flushBulk()` suspends
\* when a bulk call was issued, and otherwise cleanup goes straight on.
SDK_shutdown ==
  IF shutdown # "running"
    THEN UNCHANGED <<bulkBuffer, bulkCalls, fate, shutdown, wsConnections, clients>>
    ELSE LET r == flushBulk(bulkBuffer, bulkCalls)
         IN /\ bulkBuffer' = r.buf
            /\ fate' = FateIssued(fate, r)
            /\ IF r.issued
                 THEN /\ bulkCalls' = [r.calls EXCEPT ![Len(r.calls)].awaitedBy = ShutdownWaiter]
                      /\ shutdown' = "flushing"
                      /\ UNCHANGED <<wsConnections, clients>>
                 ELSE /\ bulkCalls' = r.calls
                      /\ SDK_cleanupAfterFlush

\* sdk handleWebhookEvent, event meeting.rtms_started: metadata is stored
\* under a defined meeting uuid, a client is created and put in rtmsClients
\* under a defined stream id (replacing the entry of an earlier client),
\* meeting_started is broadcast, the transcript callback is installed and
\* the client joined.  A throwing send in the broadcast leaves the handler
\* before the join (the client stays created, in the Map) and Express
\* answers the request with 500.
SDK_RtmsStarted(meetingUuid, streamId) ==
  /\ shutdown # "exited"
  /\ impl = "sdk"
  /\ Cardinality(clients) < MaxClients
  /\ meetingMetadata' =
       IF meetingUuid # Undefined
         THEN storeMeetingMetadata(meetingUuid,
                [meeting_start_time |-> Now, rtms_stream_id |-> streamId],
                meetingMetadata)
         ELSE meetingMetadata
  /\ \E failing \in Failing(wsConnections) :
       /\ lastBroadcast' = broadcastToClients(Event("meeting_started", ""), wsConnections, failing)
       /\ webhookFault' = IF failing # 0 THEN "500" ELSE webhookFault
       /\ clients' =
            {IF c.mapped /\ c.streamId = streamId /\ streamId # Undefined
               THEN [c EXCEPT !.mapped = FALSE] ELSE c : c \in clients}
            \cup (IF failing = 0
                    THEN {Client(meetingUuid, streamId, "joined", streamId # Undefined)}
                    ELSE IF streamId # Undefined
                      THEN {Client(meetingUuid, streamId, "created", TRUE)}
                      ELSE {})
  /\ lastTurn' = NoTurn
  /\ UNCHANGED <<wsConnections, shutdown>>
  /\ UNCHANGED <<impl, es, esConnected, pingPending, meetingChunkCounters, bulkBuffer,
                 bulkCalls, cleanupTimers, fate, lastDoc, maxHanded, sinceCleanup>>

\* sdk client.onTranscriptData callback of client c: broadcast the
\* transcript, then (under a defined meeting uuid) build the document and
\* append it.  A throwing send rejects the async callback before the
\* document is built; the unhandledRejection handler runs shutdown().
SDK_Fragment(c, data) ==
  /\ shutdown # "exited"
  /\ impl = "sdk"
  /\ c \in clients
  /\ c.phase = "joined"
  /\ \E failing \in Failing(wsConnections) :
       /\ lastBroadcast' = broadcastToClients(Event("transcript", data), wsConnections, failing)
       /\ IF failing # 0
            THEN /\ SDK_shutdown
                 /\ UNCHANGED <<meetingChunkCounters, lastDoc, maxHanded, sinceCleanup>>
            ELSE /\ IF c.meetingUuid # Undefined
                      THEN /\ Len(fate) < MaxFragments
                           /\ AssembleAndAppend(c.meetingUuid, data)
                      ELSE UNCHANGED <<meetingChunkCounters, bulkBuffer, bulkCalls, fate,
                                       lastDoc, maxHanded, sinceCleanup>>
                 /\ UNCHANGED <<shutdown, wsConnections, clients>>
  /\ lastTurn' = NoTurn
  /\ UNCHANGED webhookFault
  /\ UNCHANGED <<impl, es, esConnected, pingPending, meetingMetadata, cleanupTimers>>

\* ... a transcript of plain words
SDK_Transcript(c) == SDK_Fragment(c, "hi")

\* sdk handleWebhookEvent, event meeting.rtms_stopped: nothing without a
\* stream id; else the client rtmsClients holds under it is left and
\* deleted, flushBulk is started (not awaited), the cleanup timer is set
\* under a defined meeting uuid, and meeting_stopped is broadcast.
SDK_RtmsStopped(meetingUuid, streamId) ==
  /\ shutdown # "exited"
  /\ impl = "sdk"
  /\ TimersOutstanding < MaxTimers
  /\ IF streamId = Undefined
       THEN /\ lastBroadcast' = NoBroadcast
            /\ UNCHANGED <<clients, bulkBuffer, bulkCalls, cleanupTimers, fate,
                           webhookFault>>
       ELSE LET r == flushBulk(bulkBuffer, bulkCalls)
            IN /\ clients' = IF MapHas(rtmsClients, streamId)
                               THEN clients \ {rtmsClients[streamId]}
                               ELSE clients
               /\ bulkBuffer' = r.buf
               /\ bulkCalls' = r.calls
               /\ fate' = FateIssued(fate, r)
               /\ cleanupTimers' = IF meetingUuid # Undefined
                                     THEN Append(cleanupTimers, meetingUuid)
                                     ELSE cleanupTimers
               /\ \E failing \in Failing(wsConnections) :
                    /\ lastBroadcast' = broadcastToClients(Event("meeting_stopped", ""), wsConnections, failing)
                    /\ webhookFault' = IF failing # 0 THEN "500" ELSE webhookFault
  /\ lastTurn' = NoTurn
  /\ UNCHANGED <<wsConnections, shutdown>>
  /\ UNCHANGED <<impl, es, esConnected, pingPending, meetingChunkCounters,
                 meetingMetadata, lastDoc, maxHanded, sinceCleanup>>

\* The oldest pending cleanup setTimeout fires (equal delays fire in the
\* order they were scheduled).
CleanupTimerFire ==
  /\ shutdown # "exited"
  /\ Len(cleanupTimers) > 0
  /\ LET meetingUuid == Head(cleanupTimers)
     IN /\ meetingMetadata' = MapDelete(meetingMetadata, meetingUuid)
        /\ meetingChunkCounters' = MapDelete(meetingChunkCounters, meetingUuid)
        /\ sinceCleanup' = [m \in Meetings |-> IF m = meetingUuid THEN 0 ELSE sinceCleanup[m]]
  /\ cleanupTimers' = Tail(cleanupTimers)
  /\ lastBroadcast' = NoBroadcast
  /\ lastTurn' = NoTurn
  /\ UNCHANGED <<wsConnections, shutdown, webhookFault>>
  /\ UNCHANGED <<impl, es, esConnected, pingPending, bulkBuffer, bulkCalls, clients,
                 fate, lastDoc, maxHanded>>

\* The uids of the documents of in-flight bulk call i.
BatchUids(i) == IF i \in 1..Len(bulkCalls) THEN Uids(bulkCalls[i].operations) ELSE {}

\* A bulk return that puts the documents that were not indexed back in the
\* queue.
BulkReturn_requeue(i, outcome, rejected) ==
  /\ shutdown # "exited"
  /\ i \in 1..Len(bulkCalls)
  /\ bulkCalls' = RemoveAt(bulkCalls, i)
  /\ fate' = [u \in DOMAIN fate |->
                IF u \in BatchUids(i) /\ outcome # "threw" /\ u \notin rejected
                  THEN [fate[u] EXCEPT !.stored = @ + 1] ELSE fate[u]]
  /\ bulkBuffer' = bulkBuffer \o SelectSeq(bulkCalls[i].operations,
                                    LAMBDA d : outcome = "threw" \/ d.uid \in rejected)
  /\ ResumeWaiter(bulkCalls[i].awaitedBy)
  /\ lastBroadcast' = NoBroadcast
  /\ lastTurn' = NoTurn
  /\ UNCHANGED webhookFault
  /\ UNCHANGED <<impl, es, esConnected, pingPending, meetingChunkCounters,
                 meetingMetadata, lastDoc, maxHanded, sinceCleanup>>

\* es.bulk call i returns: resolved without errors ("ok"), resolved with
\* resp.errors ("errors", the sink rejected the documents in `rejected`), or
\* rejected ("threw").  flushBulk only logs; a js rtms_stopped handler that
\* awaited this flush then resumes and schedules its cleanup timer.
BulkReturn(i, outcome, rejected) ==
  /\ shutdown # "exited"
  /\ i \in 1..Len(bulkCalls)
  /\ bulkCalls' = RemoveAt(bulkCalls, i)
  /\ fate' = [u \in DOMAIN fate |->
                IF u \in BatchUids(i) /\ outcome # "threw" /\ u \notin rejected
                  THEN [fate[u] EXCEPT !.stored = @ + 1] ELSE fate[u]]
  /\ ResumeWaiter(bulkCalls[i].awaitedBy)
  /\ lastBroadcast' = NoBroadcast
  /\ lastTurn' = NoTurn
  /\ UNCHANGED webhookFault
  /\ UNCHANGED <<impl, es, esConnected, pingPending, meetingChunkCounters,
                 meetingMetadata, bulkBuffer, lastDoc, maxHanded, sinceCleanup>>

\* timestamps a keep-alive request may carry
KeepAliveTimestamps == {11, 12}
\* a message of the RTMS protocol on one socket of session c
Message(c, socket, msg_type, timestamp) ==
  [session |-> c, socket |-> socket, msg_type |-> msg_type, timestamp |-> timestamp]

\* A keep-alive handling that only the signaling socket has.
JS_KeepAlive_signalingOnly(c, socket, timestamp) ==
  /\ shutdown # "exited"
  /\ impl = "js"
  /\ c \in clients
  /\ socket = "media" => c.phase = "media"
  /\ lastTurn' = [got |-> <<Message(c, socket, 12, timestamp)>>,
                  sent |-> IF socket = "signaling"
                             THEN <<Message(c, socket, 13, timestamp)>>
                             ELSE <<>>]
  /\ lastBroadcast' = NoBroadcast
  /\ UNCHANGED <<wsConnections, shutdown, webhookFault>>
  /\ UNCHANGED <<impl, es, esConnected, pingPending, meetingChunkCounters,
                 meetingMetadata, bulkBuffer, bulkCalls, cleanupTimers, clients, fate,
                 lastDoc, maxHanded, sinceCleanup>>

\* js 'message' handler of a session's signaling or media socket for a
\* keep-alive request (msg_type 12) carrying `timestamp`: one msg_type 13
\* with the same timestamp is sent on the socket the request came in on.
JS_KeepAlive(c, socket, timestamp) ==
  /\ shutdown # "exited"
  /\ impl = "js"
  /\ c \in clients
  /\ socket = "media" => c.phase = "media"
  /\ lastTurn' = [got |-> <<Message(c, socket, 12, timestamp)>>,
                  sent |-> <<Message(c, socket, 13, timestamp)>>]
  /\ lastBroadcast' = NoBroadcast
  /\ UNCHANGED <<wsConnections, shutdown, webhookFault>>
  /\ UNCHANGED <<impl, es, esConnected, pingPending, meetingChunkCounters,
                 meetingMetadata, bulkBuffer, bulkCalls, cleanupTimers, clients, fate,
                 lastDoc, maxHanded, sinceCleanup>>

\* sdk wss 'connection' handler: the socket joins wsConnections (and is sent
\* the `connected` greeting).
ObserverConnect ==
  /\ shutdown # "exited"
  /\ impl = "sdk"
  /\ Len(wsConnections) < MaxObservers
  /\ LET id == CHOOSE n \in 1..MaxObservers :
                 /\ n \notin ObserverIds(wsConnections)
                 /\ \A k \in 1..(n - 1) : k \in ObserverIds(wsConnections)
     IN wsConnections' = Append(wsConnections, Observer(id, TRUE))
  /\ lastBroadcast' = NoBroadcast
  /\ lastTurn' = NoTurn
  /\ UNCHANGED <<shutdown, webhookFault>>
  /\ UNCHANGED <<impl, es, esConnected, pingPending, meetingChunkCounters,
                 meetingMetadata, bulkBuffer, bulkCalls, cleanupTimers, clients, fate,
                 lastDoc, maxHanded, sinceCleanup>>

\* An observer socket leaves readyState OPEN (the peer went away or started
\* the closing handshake); its 'close' event has not been delivered yet.
ObserverClosing(id) ==
  /\ shutdown # "exited"
  /\ impl = "sdk"
  /\ id \in OpenIds(wsConnections)
  /\ wsConnections' = [k \in 1..Len(wsConnections) |->
                         IF wsConnections[k].id = id THEN Observer(id, FALSE)
                                                     ELSE wsConnections[k]]
  /\ lastBroadcast' = NoBroadcast
  /\ lastTurn' = NoTurn
  /\ UNCHANGED <<shutdown, webhookFault>>
  /\ UNCHANGED <<impl, es, esConnected, pingPending, meetingChunkCounters,
                 meetingMetadata, bulkBuffer, bulkCalls, cleanupTimers, clients, fate,
                 lastDoc, maxHanded, sinceCleanup>>

\* sdk ws 'close' / 'error' handler of an observer: wsConnections.delete(ws).
ObserverClose(id) ==
  /\ shutdown # "exited"
  /\ impl = "sdk"
  /\ id \in ObserverIds(wsConnections)
  /\ wsConnections' = DeleteObserver(wsConnections, id)
  /\ lastBroadcast' = NoBroadcast
  /\ lastTurn' = NoTurn
  /\ UNCHANGED <<shutdown, webhookFault>>
  /\ UNCHANGED <<impl, es, esConnected, pingPending, meetingChunkCounters,
                 meetingMetadata, bulkBuffer, bulkCalls, cleanupTimers, clients, fate,
                 lastDoc, maxHanded, sinceCleanup>>

\* sdk ws 'message' handler of an observer, a help_request: it is broadcast
\* to wsConnections; the handler's try/catch swallows a throwing send.
ObserverHelpRequest(id) ==
  /\ shutdown # "exited"
  /\ impl = "sdk"
  /\ id \in OpenIds(wsConnections)
  /\ \E failing \in Failing(wsConnections) :
       lastBroadcast' = broadcastToClients(Event("help_request", ""), wsConnections, failing)
  /\ lastTurn' = NoTurn
  /\ UNCHANGED <<wsConnections, shutdown, webhookFault>>
  /\ UNCHANGED <<impl, es, esConnected, pingPending, meetingChunkCounters,
                 meetingMetadata, bulkBuffer, bulkCalls, cleanupTimers, clients, fate,
                 lastDoc, maxHanded, sinceCleanup>>

\* what an observer can send besides a help_request: text that is not JSON,
\* the JSON value null, a message of another type
IgnoredPayloads == {"not json", "null", "other_type"}

\* sdk ws 'message' handler of an observer for any other payload: JSON.parse
\* throws into the handler's catch, or `msg && msg.type === 'help_request'`
\* is false; nothing is sent and nothing is changed.
ObserverIgnoredMessage(id, payload) ==
  /\ shutdown # "exited"
  /\ impl = "sdk"
  /\ id \in OpenIds(wsConnections)
  /\ payload \in IgnoredPayloads
  /\ lastBroadcast' = NoBroadcast
  /\ lastTurn' = NoTurn
  /\ UNCHANGED <<wsConnections, shutdown, webhookFault>>
  /\ UNCHANGED <<impl, es, esConnected, pingPending, meetingChunkCounters,
                 meetingMetadata, bulkBuffer, bulkCalls, cleanupTimers, clients, fate,
                 lastDoc, maxHanded, sinceCleanup>>

\* js gracefulShutdown(signal): clearInterval, `await flushBulk()`, then
\* server.close(() => process.exit(0)).  Nothing keeps a second signal from
\* running it again.
JS_Shutdown ==
  /\ shutdown # "exited"
  /\ impl = "js"
  /\ LET r == flushBulk(bulkBuffer, bulkCalls)
     IN /\ bulkBuffer' = r.buf
        /\ fate' = FateIssued(fate, r)
        /\ IF r.issued
             THEN /\ bulkCalls' = [r.calls EXCEPT ![Len(r.calls)].awaitedBy = ShutdownWaiter]
                  /\ shutdown' = IF shutdown = "closing" THEN "closing" ELSE "flushing"
             ELSE /\ bulkCalls' = r.calls
                  /\ shutdown' = "closing"
  /\ lastBroadcast' = NoBroadcast
  /\ lastTurn' = NoTurn
  /\ UNCHANGED <<wsConnections, webhookFault>>
  /\ UNCHANGED <<impl, es, esConnected, pingPending, meetingChunkCounters,
                 meetingMetadata, cleanupTimers, clients, lastDoc, maxHanded, sinceCleanup>>

\* js: the HTTP server has closed (its connections ended) and the callback
\* of server.close runs process.exit(0).
JS_ServerClosed ==
  /\ impl = "js"
  /\ shutdown = "closing"
  /\ shutdown' = "exited"
  /\ lastBroadcast' = NoBroadcast
  /\ lastTurn' = NoTurn
  /\ UNCHANGED <<wsConnections, webhookFault>>
  /\ UNCHANGED <<impl, es, esConnected, pingPending, meetingChunkCounters,
                 meetingMetadata, bulkBuffer, bulkCalls, cleanupTimers, clients, fate,
                 lastDoc, maxHanded, sinceCleanup>>

\* sdk SIGINT / SIGTERM / uncaughtException / unhandledRejection handler.
SDK_Shutdown ==
  /\ shutdown # "exited"
  /\ impl = "sdk"
  /\ SDK_shutdown
  /\ lastBroadcast' = NoBroadcast
  /\ lastTurn' = NoTurn
  /\ UNCHANGED webhookFault
  /\ UNCHANGED <<impl, es, esConnected, pingPending, meetingChunkCounters,
                 meetingMetadata, cleanupTimers, lastDoc, maxHanded, sinceCleanup>>

\* sdk shutdown(): the 5000 ms timer of the Promise.race wins over a
\* cleanup() still waiting for its flush; shutdown goes on to close the HTTP
\* server.
SDK_ShutdownTimeout ==
  /\ impl = "sdk"
  /\ shutdown = "flushing"
  /\ shutdown' = "closing"
  /\ lastBroadcast' = NoBroadcast
  /\ lastTurn' = NoTurn
  /\ UNCHANGED <<wsConnections, webhookFault>>
  /\ UNCHANGED <<impl, es, esConnected, pingPending, meetingChunkCounters,
                 meetingMetadata, bulkBuffer, bulkCalls, cleanupTimers, clients, fate,
                 lastDoc, maxHanded, sinceCleanup>>

\* sdk shutdown(): server.close has called back or its 2000 ms timer has
\* fired; process.exit(0).
SDK_Exit ==
  /\ impl = "sdk"
  /\ shutdown = "closing"
  /\ shutdown' = "exited"
  /\ lastBroadcast' = NoBroadcast
  /\ lastTurn' = NoTurn
  /\ UNCHANGED <<wsConnections, webhookFault>>
  /\ UNCHANGED <<impl, es, esConnected, pingPending, meetingChunkCounters,
                 meetingMetadata, bulkBuffer, bulkCalls, cleanupTimers, clients, fate,
                 lastDoc, maxHanded, sinceCleanup>>

\* webhook payload fields: present or absent
MeetingArg == Meetings \cup {Undefined}
StreamArg == Streams \cup {Undefined}
\* server_urls: a websocket URL, a string `new WebSocket` rejects, or absent
UrlArg == {"wss", BadUrl, Undefined}
\* ... without the string that is no URL
GoodUrlArg == {"wss", Undefined}

\* The relay with its storage, fed well-formed server_urls, no observer
\* connected, no shutdown signal.
Next ==
  \/ EsPingOk
  \/ EsPingFail
  \/ TimerTick
  \/ \E m \in MeetingArg, s \in StreamArg, u \in GoodUrlArg : JS_RtmsStarted(m, s, u)
  \/ \E c \in clients : JS_SignalingHandshakeOk(c)
  \/ \E c \in clients : JS_SocketClose(c)
  \/ \E c \in clients : JS_Transcript(c)
  \/ \E m \in MeetingArg : JS_RtmsStopped(m)
  \/ \E m \in MeetingArg, s \in StreamArg : SDK_RtmsStarted(m, s)
  \/ \E c \in clients : SDK_Transcript(c)
  \/ \E m \in MeetingArg, s \in StreamArg : SDK_RtmsStopped(m, s)
  \/ CleanupTimerFire
  \/ \E i \in 1..MaxFragments : BulkReturn(i, "ok", {})
  \/ \E i \in 1..MaxFragments : BulkReturn(i, "threw", {})
  \/ \E i \in 1..MaxFragments : \E rej \in (SUBSET BatchUids(i)) \ {{}} : BulkReturn(i, "errors", rej)

Spec == Init /\ [][Next]_vars

\* webhook payloads that name the first meeting, or none
OneMeeting == {"m1", Undefined}

\* The sdk relay started without ELASTIC_URL, fed webhooks of one meeting,
\* with the browser sockets that observe it.
NextFanout ==
  \/ TimerTick
  \/ \E m \in OneMeeting, s \in StreamArg : SDK_RtmsStarted(m, s)
  \/ \E c \in clients : SDK_Transcript(c)
  \/ \E m \in OneMeeting, s \in StreamArg : SDK_RtmsStopped(m, s)
  \/ CleanupTimerFire
  \/ ObserverConnect
  \/ \E o \in 1..MaxObservers : ObserverClosing(o)
  \/ \E o \in 1..MaxObservers : ObserverClose(o)
  \/ \E o \in 1..MaxObservers : ObserverHelpRequest(o)
  \/ \E o \in 1..MaxObservers, p \in IgnoredPayloads : ObserverIgnoredMessage(o, p)
  \/ SDK_Exit

InitFanout == Init /\ impl = "sdk" /\ ~es

SpecFanout == InitFanout /\ [][NextFanout]_vars

\* The js relay started without ELASTIC_URL, with the messages of the RTMS
\* sockets and any server_urls in the rtms_started payload.
NextSignaling ==
  \/ TimerTick
  \/ \E m \in MeetingArg, s \in StreamArg, u \in UrlArg : JS_RtmsStarted(m, s, u)
  \/ \E c \in clients : JS_SignalingHandshakeOk(c)
  \/ \E c \in clients, st \in StatusCodes, url \in BOOLEAN : JS_SignalingHandshakeFail(c, st, url)
  \/ \E c \in clients, st \in StatusCodes : JS_MediaHandshake(c, st)
  \/ \E c \in clients, p \in MalformedPayloads : JS_MediaMalformed(c, p)
  \/ \E c \in clients : JS_SocketClose(c)
  \/ \E c \in clients : JS_Transcript(c)
  \/ \E c \in clients, k \in {"signaling", "media"}, t \in KeepAliveTimestamps :
       JS_KeepAlive(c, k, t)
  \/ \E m \in MeetingArg : JS_RtmsStopped(m)
  \/ CleanupTimerFire

InitSignaling == Init /\ impl = "js" /\ ~es

SpecSignaling == InitSignaling /\ [][NextSignaling]_vars

\* Either relay with its storage, fed webhooks of one meeting, and the
\* SIGTERM / SIGINT sequence.
NextShutdown ==
  \/ EsPingOk
  \/ EsPingFail
  \/ TimerTick
  \/ \E m \in OneMeeting, s \in StreamArg, u \in GoodUrlArg : JS_RtmsStarted(m, s, u)
  \/ \E c \in clients : JS_SignalingHandshakeOk(c)
  \/ \E c \in clients : JS_SocketClose(c)
  \/ \E c \in clients : JS_Transcript(c)
  \/ \E m \in OneMeeting : JS_RtmsStopped(m)
  \/ \E m \in OneMeeting, s \in StreamArg : SDK_RtmsStarted(m, s)
  \/ \E c \in clients : SDK_Transcript(c)
  \/ \E m \in OneMeeting, s \in StreamArg : SDK_RtmsStopped(m, s)
  \/ CleanupTimerFire
  \/ \E i \in 1..MaxFragments : BulkReturn(i, "ok", {})
  \/ \E i \in 1..MaxFragments : BulkReturn(i, "threw", {})
  \/ \E i \in 1..MaxFragments : \E rej \in (SUBSET BatchUids(i)) \ {{}} : BulkReturn(i, "errors", rej)
  \/ JS_Shutdown
  \/ JS_ServerClosed
  \/ SDK_Shutdown
  \/ SDK_ShutdownTimeout
  \/ SDK_Exit

SpecShutdown == Init /\ [][NextShutdown]_vars

\* Either relay with its storage and one meeting, the sdk relay with its
\* observers, fed transcripts of any text.
NextText ==
  \/ EsPingOk
  \/ TimerTick
  \/ \E m \in Meetings \cap OneMeeting, s \in Streams : JS_RtmsStarted(m, s, "wss")
  \/ \E c \in clients : JS_SignalingHandshakeOk(c)
  \/ \E c \in clients, content \in Contents : JS_Fragment(c, content)
  \/ \E m \in OneMeeting, s \in StreamArg : SDK_RtmsStarted(m, s)
  \/ \E c \in clients, t \in Texts : SDK_Fragment(c, t)
  \/ ObserverConnect
  \/ \E o \in 1..MaxObservers : ObserverClose(o)
  \/ \E i \in 1..MaxFragments : BulkReturn(i, "ok", {})

InitText == Init /\ es = TRUE

SpecText == InitText /\ [][NextText]_vars

\* ----------------------------------------------------- step vocabulary
\* a fragment handler built a document in this step
FragmentStep == Len(fate') = Len(fate) + 1
\* an es.bulk call was started in this step
CallIssued == Len(bulkCalls') > Len(bulkCalls)
\* occurrences of document u in the queue / in the in-flight calls
InQueue(u) == Cardinality({k \in 1..Len(bulkBuffer) : bulkBuffer[k].uid = u})
InFlight(u) == Cardinality({i \in 1..Len(bulkCalls) : u \in Uids(bulkCalls[i].operations)})
SameCounter(m) ==
  /\ MapHas(meetingChunkCounters', m) = MapHas(meetingChunkCounters, m)
  /\ MapHas(meetingChunkCounters, m) => meetingChunkCounters'[m] = meetingChunkCounters[m]

\* ------------------------------------------------------------------ C1
\* C1: between two cleanups of a meeting, the fragment handled when N
\* fragments of that meeting have been handled since the last cleanup gets
\* chunk_index N, whatever ran in between (so N fragments get exactly
\* 0..N-1), and the step leaves the counter of every other meeting alone.
C1_SequenceExact ==
  [][\A m \in Meetings :
       sinceCleanup'[m] = sinceCleanup[m] + 1 =>
         /\ FragmentStep
         /\ lastDoc'.meeting_id = m
         /\ lastDoc'.chunk_index = sinceCleanup[m]
         /\ \A o \in Meetings \ {m} : SameCounter(o)]_vars

\* Two fragments of one meeting, a bulk write issued in between and still in
\* flight, the second fragment holding index 1.
C1_Witness ==
  \E m \in Meetings :
    /\ sinceCleanup[m] = 2
    /\ lastDoc.meeting_id = m
    /\ lastDoc.chunk_index = 1
    /\ Len(bulkCalls) > 0

\* ------------------------------------------------------------------ C2
\* C2: whatever webhooks, cleanup timers and fragments came before, the index
\* handed to a fragment of a meeting is larger than every index handed out
\* for that meeting id before.
C2_NeverRepeats ==
  [][\A m \in Meetings :
       (FragmentStep /\ lastDoc'.meeting_id = m) =>
         lastDoc'.chunk_index > maxHanded[m]]_vars

\* ------------------------------------------------------------------ C3
\* C3: every document accepted by appendTranscriptToES is, at any time, in
\* the queue or in exactly one bulk call, never both and never twice; a
\* document that was not accepted is in neither; a step that starts a bulk
\* call takes the whole queue and leaves it empty; and the batch of a call in
\* flight never changes.
C3_State ==
  \A u \in 1..Len(fate) :
    /\ fate[u].enqueued => InQueue(u) + fate[u].batches = 1
    /\ ~fate[u].enqueued => InQueue(u) = 0 /\ fate[u].batches = 0
    /\ InFlight(u) <= fate[u].batches

C3_Step ==
  /\ CallIssued =>
       /\ bulkBuffer' = <<>>
       /\ bulkCalls' = Append(bulkCalls, Last(bulkCalls'))
       /\ Uids(Last(bulkCalls').operations) =
            Uids(bulkBuffer) \cup (IF FragmentStep THEN {lastDoc'.uid} ELSE {})
  /\ ~CallIssued =>
       \A j \in 1..Len(bulkCalls') : \E i \in 1..Len(bulkCalls) :
          bulkCalls'[j].operations = bulkCalls[i].operations

C3_ExactlyOneBatch == [](C3_State) /\ [][C3_Step]_vars

\* A bulk write holding document 1 is in flight while document 2 waits in the
\* queue for a later batch.
C3_Witness ==
  /\ Len(bulkCalls) = 1
  /\ Uids(bulkCalls[1].operations) = {1}
  /\ Uids(bulkBuffer) = {2}

\* ------------------------------------------------------------------ C4
\* C4: at most one bulk write is in flight at any time.
C4_OneInFlight == Len(bulkCalls) <= 1

\* ------------------------------------------------------------------ C5
\* C5: a step that starts a bulk call starts exactly one and empties the
\* queue, so a second flush of the same queue finds nothing; a flush (timer,
\* stop) on an empty queue starts no call; and a timer tick on an empty queue
\* changes nothing the relay holds.
C5_OneCallPerQueue ==
  [][/\ CallIssued => bulkBuffer' = <<>> /\ Len(bulkCalls') = Len(bulkCalls) + 1
     /\ (bulkBuffer = <<>> /\ ~FragmentStep) => ~CallIssued /\ bulkBuffer' = <<>>
     /\ (TimerTick /\ bulkBuffer = <<>>) => UNCHANGED <<progVars, fate>>]_vars

\* The state a size-triggered flush leaves: the full batch in flight, the
\* queue empty for the timer flush that follows.
C5_Witness ==
  /\ bulkBuffer = <<>>
  /\ Len(bulkCalls) = 1
  /\ Len(bulkCalls[1].operations) = BULK_BATCH_SIZE
  /\ lastDoc.uid \in Uids(bulkCalls[1].operations)

\* ------------------------------------------------------------------ C6
\* C6: a fragment handler whose document is accepted starts a bulk call in
\* the same step exactly when the queue holds BULK_BATCH_SIZE documents after
\* the append; that call carries exactly those documents; otherwise the
\* document just joins the queue, which stays shorter than BULK_BATCH_SIZE.
C6_SizeTrigger ==
  [][(FragmentStep /\ fate'[Len(fate')].enqueued) =>
       /\ CallIssued <=> Len(bulkBuffer) + 1 = BULK_BATCH_SIZE
       /\ CallIssued =>
            /\ bulkCalls' = Append(bulkCalls, [operations |-> Append(bulkBuffer, lastDoc'),
                                               awaitedBy |-> NoWaiter])
            /\ bulkBuffer' = <<>>
       /\ ~CallIssued =>
            /\ bulkBuffer' = Append(bulkBuffer, lastDoc')
            /\ Len(bulkBuffer') < BULK_BATCH_SIZE
            /\ bulkCalls' = bulkCalls]_vars

\* The BULK_BATCH_SIZE-th document has just been appended and the batch of
\* exactly that many documents is in flight.
C6_Witness ==
  /\ BULK_BATCH_SIZE >= 2
  /\ bulkBuffer = <<>>
  /\ Len(bulkCalls) >= 1
  /\ Len(Last(bulkCalls).operations) = BULK_BATCH_SIZE
  /\ Last(Last(bulkCalls).operations) = lastDoc

\* ------------------------------------------------------------------ C7
\* C7: with storage connected, whenever the queue is not empty a timer tick
\* can run and empties it, and every timer tick leaves the queue empty with
\* all the queued documents in one new bulk call.
C7_TickFlushes ==
  /\ []((es /\ esConnected /\ bulkBuffer # <<>>) => ENABLED (TimerTick /\ bulkBuffer' = <<>>))
  /\ [][(TimerTick /\ es /\ esConnected) =>
          /\ bulkBuffer' = <<>>
          /\ bulkBuffer # <<>> =>
               bulkCalls' = Append(bulkCalls, [operations |-> bulkBuffer,
                                               awaitedBy |-> NoWaiter])]_vars

\* js: a batch smaller than BULK_BATCH_SIZE that no rtms_stopped handler
\* awaits is in flight, so the timer issued it; the queue is empty.
C7_Witness ==
  /\ impl = "js"
  /\ bulkBuffer = <<>>
  /\ \E i \in 1..Len(bulkCalls) :
       /\ Len(bulkCalls[i].operations) < BULK_BATCH_SIZE
       /\ bulkCalls[i].awaitedBy = NoWaiter

\* ------------------------------------------------------------------ C8
\* C8 (as claimed): at-least-once delivery; once nothing is queued and no
\* bulk write is in flight, every document assembled has been stored.
C8_AtLeastOnce ==
  (bulkBuffer = <<>> /\ bulkCalls = <<>>) =>
     \A u \in 1..Len(fate) : fate[u].stored >= 1

\* C8 (amended): at-most-once delivery; a document is handed to at most one
\* bulk write, and only if it was assembled while storage was connected; it
\* is stored at most once and only by that write; whether it is stored is
\* settled when that write returns and never changes afterwards.
C8_AtMostOnce ==
  /\ [](\A u \in 1..Len(fate) :
          /\ fate[u].batches <= 1
          /\ fate[u].stored <= fate[u].batches
          /\ ~fate[u].enqueued => fate[u].batches = 0
          /\ InFlight(u) = 1 => fate[u].stored = 0)
  /\ [][\A u \in 1..Len(fate) :
          InFlight(u) = 0 => fate'[u].stored = fate[u].stored]_vars

\* One document stored, another handed to a bulk write that failed: nothing
\* is queued or in flight and the second is not stored.
C8_Witness ==
  /\ bulkBuffer = <<>>
  /\ bulkCalls = <<>>
  /\ \E u, v \in 1..Len(fate) :
       /\ fate[u].stored = 1
       /\ fate[v].batches = 1
       /\ fate[v].stored = 0

\* ------------------------------------------------------------------ C9
\* C9: when a bulk call returns with some document not indexed, the queue is
\* left exactly as it was, no bulk call is started, no document of the batch
\* is handed to a write again, and the handler that awaited the flush resumes
\* (its cleanup timer is scheduled); at any time a document whose write has
\* returned is neither queued nor in flight.
C9_Step ==
  \A i \in 1..Len(bulkCalls) :
    (/\ bulkCalls' = RemoveAt(bulkCalls, i)
     /\ \E u \in BatchUids(i) : fate'[u].stored = fate[u].stored) =>
       /\ bulkBuffer' = bulkBuffer
       /\ \A u \in BatchUids(i) : fate'[u].batches = fate[u].batches
       /\ cleanupTimers' = IF bulkCalls[i].awaitedBy \notin {NoWaiter, ShutdownWaiter}
                             THEN Append(cleanupTimers, bulkCalls[i].awaitedBy)
                             ELSE cleanupTimers

C9_FailedBatchDropped ==
  /\ [][C9_Step]_vars
  /\ [](\A u \in 1..Len(fate) :
          (fate[u].batches >= 1 /\ InFlight(u) = 0) => InQueue(u) = 0 /\ fate[u].batches = 1)

\* The write of document 1 has failed; the queue holds only document 2,
\* enqueued after the swap; nothing is in flight.
C9_Witness ==
  /\ bulkCalls = <<>>
  /\ Len(fate) = 2
  /\ fate[1].batches = 1
  /\ fate[1].stored = 0
  /\ Uids(bulkBuffer) = {2}

\* ----------------------------------------------------------------- C10
\* C10: a fragment handled while the grace delay of a stop of its meeting is
\* still running finds the counter and the metadata the meeting had, that is,
\* no step deletes a meeting's counter or metadata while a cleanup timer of
\* that meeting is still pending after the step; and the timer that fires
\* deletes both, so that the next index is 0.
C10_GraceDelay ==
  [][\A m \in Meetings :
       /\ ((MapHas(meetingChunkCounters, m) /\ ~MapHas(meetingChunkCounters', m))
            \/ (MapHas(meetingMetadata, m) /\ ~MapHas(meetingMetadata', m)))
          => \A k \in 1..Len(cleanupTimers') : cleanupTimers'[k] # m
       /\ (cleanupTimers # <<>> /\ cleanupTimers' = Tail(cleanupTimers)
             /\ Head(cleanupTimers) = m)
          => ~MapHas(meetingChunkCounters', m) /\ ~MapHas(meetingMetadata', m)
       /\ (FragmentStep /\ lastDoc'.meeting_id = m /\ ~MapHas(meetingChunkCounters, m))
          => lastDoc'.chunk_index = 0]_vars

\* ----------------------------------------------------------------- C11
\* the index the next fragment of meeting m would get
NextIndexOf(m) == IF MapHas(meetingChunkCounters, m) THEN meetingChunkCounters[m] ELSE 0
\* an rtms_started webhook for meeting m is handled in this step
StartedStep(m) ==
  \/ \E s \in StreamArg, u \in UrlArg : JS_RtmsStarted(m, s, u)
  \/ \E s \in StreamArg : SDK_RtmsStarted(m, s)
\* ... and its payload carries what the relay needs to store the metadata
AcceptedStartStep(m) ==
  \/ \E s \in Streams, u \in UrlArg \ {Undefined} : JS_RtmsStarted(m, s, u)
  \/ \E s \in StreamArg : SDK_RtmsStarted(m, s)

\* C11 (as claimed): after an rtms_started webhook for a meeting is handled,
\* the meeting's metadata is the webhook's and the next fragment of the
\* meeting gets chunk_index 0.
C11_StartResets ==
  [][\A m \in Meetings :
       AcceptedStartStep(m) =>
         /\ MapHas(meetingMetadata', m)
         /\ NextIndexOf(m)' = 0]_vars

\* C11 (amended): an rtms_started webhook for a meeting creates or overwrites
\* the meeting's metadata and leaves every sequence counter as it is: the
\* next fragment of the meeting gets 0 only if the meeting has no counter,
\* and otherwise continues the sequence.
C11_StartKeepsCounter ==
  [][\A m \in Meetings :
       AcceptedStartStep(m) =>
         /\ MapHas(meetingMetadata', m)
         /\ meetingMetadata'[m].meeting_start_time = Now
         /\ meetingChunkCounters' = meetingChunkCounters
         /\ NextIndexOf(m)' = NextIndexOf(m)]_vars

\* js: a meeting that already handed out index 0 has just been started
\* again (its new session has not completed the signaling handshake).
C11_Witness ==
  \E m \in Meetings :
    /\ NextIndexOf(m) >= 1
    /\ MapHas(meetingMetadata, m)
    /\ \E c \in clients : c.meetingUuid = m /\ c.phase = "signaling"

\* ----------------------------------------------------------------- C12
\* C12: the lookup of a meeting without a registry entry yields the empty
\* object; a fragment handled for such a meeting is still assembled, with
\* the next chunk_index of its meeting id (0 if it has no counter) and
\* meeting_start_time null, and the registry is left without an entry.
C12_GhostMeeting ==
  /\ [](\A m \in Meetings :
          ~MapHas(meetingMetadata, m) =>
             getMeetingMetadata(m, meetingMetadata).meeting_start_time = NULL)
  /\ [][\A c \in clients :
          (/\ JS_Transcript(c) \/ SDK_Transcript(c)
           /\ c.meetingUuid \in Meetings
           /\ ~MapHas(meetingMetadata, c.meetingUuid)) =>
             /\ FragmentStep
             /\ lastDoc'.meeting_id = c.meetingUuid
             /\ lastDoc'.chunk_index = NextIndexOf(c.meetingUuid)
             /\ lastDoc'.meeting_start_time = NULL
             /\ meetingMetadata' = meetingMetadata]_vars

\* The latest document was built for a meeting without a registry entry: its
\* start time is null (a registered meeting's never is).
C12_Witness ==
  /\ lastDoc.meeting_id \in Meetings
  /\ ~MapHas(meetingMetadata, lastDoc.meeting_id)
  /\ lastDoc.meeting_start_time = NULL
  /\ lastDoc.uid = Len(fate)
  /\ lastDoc.uid >= 1

\* ----------------------------------------------------------------- C13
\* C13: publish delivers the event to every open observer even when one
\* observer's send throws: in every callback that broadcast something, the
\* event went to all observers that were OPEN except the one whose send
\* threw, and that one alone left the observer set.
C13_PublishIsolated ==
  [][lastBroadcast'.type # "none" =>
       /\ lastBroadcast'.to = OpenIds(wsConnections) \ {lastBroadcast'.failed}
       /\ lastBroadcast'.failed # 0 =>
            ObserverIds(wsConnections') = ObserverIds(wsConnections) \ {lastBroadcast'.failed}
    ]_vars

C15_AlwaysAnswered200 == webhookFault = "none"

\* ----------------------------------------------------------------- C16
\* C16: an rtms_started webhook that lacks the meeting uuid or the stream id
\* is dropped, leaving nothing behind: no client was ever created, and no
\* meeting metadata stored, from a payload without a meeting uuid or without
\* a stream id.
C16_IncompleteStartDropped ==
  /\ \A c \in clients : c.meetingUuid # Undefined /\ c.streamId # Undefined
  /\ \A m \in DOMAIN meetingMetadata : meetingMetadata[m].rtms_stream_id # Undefined

\* ----------------------------------------------------------------- C17
\* C17: an rtms_stopped webhook that names a meeting tears down that
\* session's clients besides flushing and scheduling the cleanup: in every
\* step that schedules the registry cleanup of a meeting (which only the
\* handling of such a webhook does), no client of that meeting is left to
\* deliver fragments.
C17_StopTearsDown ==
  [][\A m \in Meetings :
       (Len(cleanupTimers') > Len(cleanupTimers) /\ Last(cleanupTimers') = m)
         => \A c \in clients' : c.meetingUuid # m
    ]_vars

\* ----------------------------------------------------------------- C18
\* C18: while storage is not connected the queue stays empty and no bulk
\* write is issued, and the relay goes on: every transcript callback sends
\* the transcript to all observers that are OPEN and, for a session with a
\* meeting uuid, builds the document with the meeting's next chunk_index.
C18_State == ~esConnected => (bulkBuffer = <<>> /\ bulkCalls = <<>>)

C18_Step ==
  (~esConnected /\ lastBroadcast'.type = "transcript") =>
    /\ lastBroadcast'.to = OpenIds(wsConnections)
    /\ \A c \in clients :
         (Cardinality(clients) = 1 /\ c.meetingUuid # Undefined) =>
           /\ FragmentStep
           /\ lastDoc'.chunk_index = NextIndexOf(c.meetingUuid)

C18_RelayWithoutStorage == [](C18_State) /\ [][C18_Step]_vars

\* ----------------------------------------------------------------- C19
\* a step of the shutdown sequence that a timer or the HTTP server brings
\* about, whatever the bulk call in flight does
ShutdownProceeds == JS_ServerClosed \/ SDK_ShutdownTimeout \/ SDK_Exit

\* C19: the shutdown sequence waits for its flush for a bounded time only:
\* in every state in which a shutdown has begun and the process has not
\* exited, the sequence can take its next step without the bulk call
\* returning.
C19_BoundedWait ==
  shutdown \in {"flushing", "closing"} => ENABLED ShutdownProceeds

\* ----------------------------------------------------------------- C20
\* C20: the signaling and the media client answer every keep-alive request
\* (msg_type 12) in the turn that handles it, with exactly one keep-alive
\* response (msg_type 13) on the same socket of the same session, carrying
\* the timestamp of the request.
C20_KeepAliveEchoed ==
  \A k \in 1..Len(lastTurn.got) :
    lastTurn.got[k].msg_type = 12 =>
      lastTurn.sent = <<[lastTurn.got[k] EXCEPT !.msg_type = 13]>>

\* a keep-alive request on the media socket was answered after a transcript
\* frame had been handled
C20_Witness ==
  /\ Len(lastTurn.got) = 1
  /\ lastTurn.got[1].socket = "media"
  /\ lastTurn.got[1].msg_type = 12
  /\ Len(lastTurn.sent) = 1
  /\ fate # <<>>

\* ----------------------------------------------------------------- C21
\* C21: no connection is re-established automatically: every step in which
\* a signaling connection is opened is the handling of an rtms_started
\* webhook that carries the meeting uuid, the stream id and the server URLs
\* of that connection, so a close or error of a socket opens none and there
\* are never more connection attempts than accepted rtms_started webhooks.
C21_NoReconnect ==
  [][\A c \in clients' \ clients :
       c.phase = "signaling" =>
         \E u \in UrlArg \ {Undefined} : JS_RtmsStarted(c.meetingUuid, c.streamId, u)
    ]_vars

\* a session that had reached its media socket has closed, and nothing
\* replaced it
C21_Witness ==
  /\ impl = "js"
  /\ clients = {}
  /\ fate # <<>>
  /\ meetingMetadata # EmptyMap

\* ----------------------------------------------------------------- C22
\* C22 (order of the connection protocol): a session's media socket is
\* opened only in the turn that handles a signaling handshake response with
\* status 0 and a media URL; CLIENT_READY_ACK is sent only on the signaling
\* socket and only in the turn that handles a media handshake response with
\* status 0; a handshake response with another status, or without the URL,
\* opens nothing and sends nothing.
C22_State ==
  \A k \in 1..Len(lastTurn.got) :
    LET m == lastTurn.got[k]
    IN /\ (\E j \in 1..Len(lastTurn.sent) : lastTurn.sent[j].msg_type = 7) =>
            /\ m = Response(m.session, "media", 4, 0, FALSE)
            /\ lastTurn.sent = <<ClientReady(m.session)>>
       /\ (m.msg_type \in {2, 4} /\ (m.status_code # 0 \/ (m.msg_type = 2 /\ ~m.url))) =>
            lastTurn.sent = <<>>

C22_Step ==
  /\ \A c \in clients' \ clients :
       c.phase = "media" =>
         /\ [c EXCEPT !.phase = "signaling"] \in clients
         /\ lastTurn'.got = <<Response([c EXCEPT !.phase = "signaling"], "signaling", 2, 0, TRUE)>>
  /\ \A k \in 1..Len(lastTurn'.got) :
       LET m == lastTurn'.got[k]
       IN (m.msg_type \in {2, 4} /\ (m.status_code # 0 \/ (m.msg_type = 2 /\ ~m.url))) =>
            clients' = clients

C22_ProtocolOrder == [](C22_State) /\ [][C22_Step]_vars

\* the media handshake of a session was acknowledged with status 0 and
\* CLIENT_READY_ACK went out on its signaling socket
C22_Witness ==
  /\ Len(lastTurn.got) = 1
  /\ lastTurn.got[1].msg_type = 4
  /\ lastTurn.got[1].status_code = 0
  /\ lastTurn.sent = <<ClientReady(lastTurn.got[1].session)>>

\* ----------------------------------------------------------------- C23
\* C23: a malformed media payload is dropped without any effect: the turn
\* that handles it changes nothing the relay holds (no chunk_index consumed,
\* nothing queued or sent, the process and the session still up), so later
\* fragments are handled as if it had never arrived.
C23_MalformedDropped ==
  [][(\E c \in clients, p \in MalformedPayloads : JS_MediaMalformed(c, p)) =>
       UNCHANGED <<progVars, fate, lastDoc>>
    ]_vars

\* ----------------------------------------------------------------- C24
\* the frame contents whose text is the empty string
EmptyContents == {x \in Contents : x.data = "" \/ (x.data = Undefined /\ x.text = "")}
\* the document of this step went into the queue, or into the bulk call the
\* step issued
DocQueued ==
  \/ bulkBuffer' = Append(bulkBuffer, lastDoc')
  \/ /\ CallIssued
     /\ Last(bulkCalls').operations = Append(bulkBuffer, lastDoc')
\* the document of this step has the empty text and the next index of m
EmptyChunk(m) ==
  /\ FragmentStep
  /\ lastDoc'.text = ""
  /\ lastDoc'.meeting_id = m
  /\ lastDoc'.chunk_index = NextIndexOf(m)
  /\ meetingChunkCounters'[m] = NextIndexOf(m) + 1
  /\ (es /\ esConnected) => DocQueued

\* C24: a fragment whose text is empty is not filtered.  The js handler
\* builds one document with the empty text and the meeting's next
\* chunk_index and queues it when storage is connected; the sdk callback
\* broadcasts the transcript with its empty text and, when no send throws,
\* has reached every OPEN observer and (for a session with a meeting uuid)
\* built and queued the document in the same way.
C24_EmptyTextForwarded ==
  [][\A c \in clients :
       /\ (\E x \in EmptyContents : JS_Fragment(c, x)) => EmptyChunk(c.meetingUuid)
       /\ SDK_Fragment(c, "") =>
            /\ lastBroadcast'.type = "transcript"
            /\ lastBroadcast'.text = ""
            /\ lastBroadcast'.failed = 0 =>
                 /\ lastBroadcast'.to = OpenIds(wsConnections)
                 /\ c.meetingUuid # Undefined => EmptyChunk(c.meetingUuid)
    ]_vars

\* an empty transcript has reached an observer and its document, with the
\* second index of the meeting, is in the queue
C24_Witness ==
  /\ lastBroadcast.type = "transcript"
  /\ lastBroadcast.text = ""
  /\ lastBroadcast.to # {}
  /\ lastDoc.text = ""
  /\ lastDoc.chunk_index = 1
  /\ bulkBuffer # <<>>
  /\ Last(bulkBuffer) = lastDoc

\* ------------------------------------------------------------------ C25
RECURSIVE OperationsOf(_)
\* the documents of the calls in flight, in the order the calls were issued
OperationsOf(calls) ==
  IF calls = <<>> THEN <<>>
  ELSE Head(calls).operations \o OperationsOf(Tail(calls))
\* every document on its way to storage: earlier calls first, each batch in
\* its own order, then the queue
HandedOrder == OperationsOf(bulkCalls) \o bulkBuffer
\* document d was handled after the last cleanup of its meeting: it is among
\* the last sinceCleanup[m] documents handled
CurrentPeriod(d) ==
  /\ d.meeting_id \in Meetings
  /\ Len(fate) - d.uid + 1 <= sinceCleanup[d.meeting_id]
\* persistence keeps the handler order (uid), and with it the chunk_index
\* order of the documents of one meeting handled since its last cleanup
C25_State ==
  \A j, k \in 1..Len(HandedOrder) :
    j < k =>
      LET d == HandedOrder[j]
          e == HandedOrder[k]
      IN /\ d.uid < e.uid
         /\ (d.meeting_id = e.meeting_id /\ CurrentPeriod(d)) =>
              d.chunk_index < e.chunk_index
\* a fragment of m takes the meeting's next index and leaves the counter
\* one above it; no other step changes the counter, short of deleting it
C25_Step ==
  \A m \in Meetings :
    IF FragmentStep /\ lastDoc'.meeting_id = m
      THEN /\ lastDoc'.chunk_index = NextIndexOf(m)
           /\ MapHas(meetingChunkCounters', m)
           /\ meetingChunkCounters'[m] = NextIndexOf(m) + 1
      ELSE MapHas(meetingChunkCounters', m) => SameCounter(m)

\* C25: chunk_index follows handler order and persistence preserves it.
\* Between start and cleanup of a meeting each handled fragment takes the
\* counter's value and raises it by one, so an earlier fragment has the
\* smaller index; the documents of one batch are in handler order, every
\* document of a later call was handled after every document of an earlier
\* call, and the queue holds the latest ones, so within one batch and
\* across calls in issue order the chunk_index of a meeting increases.
C25_OrderPreserved == [](C25_State) /\ [][C25_Step]_vars

\* two documents of one meeting handled since its last cleanup are on their
\* way to storage, index 0 ahead of index 1, the first of them in a call
C25_Witness ==
  /\ Len(HandedOrder) >= 2
  /\ HandedOrder[1].meeting_id = HandedOrder[2].meeting_id
  /\ CurrentPeriod(HandedOrder[1])
  /\ HandedOrder[1].chunk_index = 0
  /\ HandedOrder[2].chunk_index = 1
  /\ bulkCalls # <<>>

\* ------------------------------------------------------------------ C26
\* C26: a help_request received from one observer is relayed as a
\* help_request event to all other OPEN observers and touches neither the
\* write buffer, the bulk calls, the sequence counters nor the meeting
\* metadata; any other inbound observer message, valid JSON or not, is
\* ignored: nothing is sent and the observer stays in the set.
C26_HelpRelayed ==
  [][\A o \in 1..MaxObservers :
       /\ ObserverHelpRequest(o) =>
            /\ lastBroadcast'.type = "help_request"
            /\ OpenIds(wsConnections) \ {o} \subseteq lastBroadcast'.to
            /\ UNCHANGED <<bulkBuffer, bulkCalls, fate, meetingChunkCounters,
                           meetingMetadata>>
       /\ \A p \in IgnoredPayloads :
            ObserverIgnoredMessage(o, p) =>
              /\ lastBroadcast'.type = "none"
              /\ UNCHANGED <<wsConnections, bulkBuffer, bulkCalls, fate,
                             meetingChunkCounters, meetingMetadata>>
    ]_vars

\* ------------------------------------------------------------------ C27
\* the cleanup timer that fires in this step was scheduled for meeting m
TimerFires(m) ==
  /\ CleanupTimerFire
  /\ Head(cleanupTimers) = m
\* the sdk relay holds a joined client of meeting m in its map.  Every sdk
\* stop that schedules a timer first leaves and deletes the client of its
\* stream id, and Streams holds one id, so while a timer is pending such a
\* client was created by an rtms_started handled after the timer's stop.
RestartedSession(m) ==
  /\ impl = "sdk"
  /\ \E c \in clients : c.mapped /\ c.meetingUuid = m

\* C27: a cleanup timer scheduled by a stop never deletes the metadata or
\* the sequence counter of a session started after that stop: when the
\* timer of a meeting fires while a session of the meeting started after
\* the stop is running, metadata and counter of the meeting stay as they
\* are, so the session's next fragment continues the sequence.
C27_StaleTimerHarmless ==
  [][\A m \in Meetings :
       (TimerFires(m) /\ RestartedSession(m)) =>
         /\ SameCounter(m)
         /\ MapHas(meetingMetadata', m)
         /\ NextIndexOf(m)' = NextIndexOf(m)
    ]_vars

\* ------------------------------------------------------------------ C28
\* between callbacks the queue is below the batch size, and holds something
\* only while storage is configured and connected
C28_State ==
  /\ Len(bulkBuffer) < BULK_BATCH_SIZE
  /\ bulkBuffer # <<>> => (es /\ esConnected)
\* the connected flag, once true, stays true
C28_Step == esConnected => esConnected'

\* C28: the write buffer is bounded.  In every state between two callbacks
\* the queue holds fewer than BULK_BATCH_SIZE documents; it is non-empty
\* only if storage is connected; and no step turns the connected flag from
\* true to false, so the guard of flushBulk never keeps queued documents
\* from being handed over.
C28_QueueBounded == [](C28_State) /\ [][C28_Step]_vars

\* the queue is one short of the batch size while an earlier batch is
\* still in flight
C28_Witness ==
  /\ Len(bulkBuffer) = BULK_BATCH_SIZE - 1
  /\ bulkCalls # <<>>
  /\ esConnected

\* ------------------------------------------------------------------ C29
\* C29: in the sdk relay every client that has been created and joined is
\* the entry of rtmsClients under its stream id, where an rtms_stopped
\* (or cleanup) finds it, and no two joined clients have the same stream
\* id, so that no fragment is delivered, and made a chunk, twice.
C29_ClientsRegistered ==
  impl = "sdk" =>
    /\ \A c \in clients :
         c.phase = "joined" =>
           /\ c.mapped
           /\ MapHas(rtmsClients, c.streamId)
           /\ rtmsClients[c.streamId] = c
    /\ \A c, d \in clients :
         (c.phase = "joined" /\ d.phase = "joined" /\ c.streamId = d.streamId) => c = d

\* ------------------------------------------------------------------ C30
\* a shutdown signal is handled in this step
ShutdownSignal == JS_Shutdown \/ SDK_Shutdown

\* C30: graceful shutdown drains what was queued and runs once.  The step
\* that handles the first shutdown signal hands every document of the
\* queue to a bulk call (so before the process exits); once the periodic
\* timer has been cleared it issues no bulk write; and a shutdown signal
\* handled while a shutdown is in progress changes nothing: no second
\* flush, no second close.
C30_DrainsOnce ==
  [][/\ (ShutdownSignal /\ shutdown = "running") =>
          /\ shutdown' # "running"
          /\ bulkBuffer' = <<>>
          /\ Uids(bulkBuffer) \subseteq Uids(OperationsOf(bulkCalls'))
     /\ ~IntervalRunning => ~TimerTick
     /\ (ShutdownSignal /\ shutdown # "running") =>
          UNCHANGED <<progVars, fate>>
    ]_vars
====
